---- MODULE Spec2Model ----
(***************************************************************************)
(* A model of the queue library (src/src/queue.c, src/include/queue.h):    *)
(* a doubly linked list used as a FIFO queue of int, a process-wide table  *)
(* of registered queues and the atexit handler that frees them.            *)
(*                                                                         *)
(* The heap is modelled explicitly.  `nodes` and `lists` are functions     *)
(* whose DOMAIN is the set of blocks malloc has handed out and free has    *)
(* not taken back; malloc picks any block that is not live (or fails),     *)
(* free of a block that is not live raises `doubleFree`.                   *)
(*                                                                         *)
(* The C functions are operators from a world (the record W of all the     *)
(* program's memory) to a world, so that a function that calls another     *)
(* (cleanup_linked_list calls queue_free) is modelled by composition.      *)
(***************************************************************************)
EXTENDS Integers, Sequences, FiniteSets, TLC

\* ---------------------------------------------------------------- bounds
\* queue.h sets MAX_QUEUES to 100; the model scales the table down.
MAX_QUEUES == 2
\* Total number of calls recorded in `trace` over all queues (a Free on a
\* queue cuts that queue's trace down to the Free itself, so runs are not
\* bounded in length).
MaxTrace == 3

\* The int values pushed and searched for (-1 is also the "empty" sentinel).
Data == {-1, 1}

NULL == 0
\* A chain never holds more nodes than its trace has pushes, so the heap
\* runs out of node blocks only when malloc chooses to fail.
NodeAddr == 1..MaxTrace
\* One more record block than the table has slots, so that a Create past
\* the cap would have memory to succeed with.
ListAddr == 1..(MAX_QUEUES + 1)
Slots == 0..(MAX_QUEUES - 1)

VARIABLES
    nodes,              \* heap: live struct Node blocks, addr -> [data, next, previous]
    lists,              \* heap: live struct LinkedList blocks, addr -> [head, tail, size, index]
    registered_queues,  \* static struct LinkedList *registered_queues[MAX_QUEUES]
    next_index,         \* static int next_index
    doubleFree,         \* free() was called on a block that was not live
    pc,                 \* "running", "exited" once exit() has run the atexit handler,
                        \* "crashed" once the process was killed by a fault
    handles,            \* the caller's handles: what queue_create returned (non-NULL)
    ret,                \* the last call: its name, handle, argument and what it returned
                        \* (for queue_peek: arg is the caller's int before, val after;
                        \* for queue_free, which returns nothing: val is the number of
                        \* node blocks the call released); a call may be given
                        \* NULL for a handle; ok is FALSE for a call that failed
                        \* or did not return
    trace,              \* per queue, in call order: the last queue_free, if there was
                        \* one, then the Pushes and the Pops that removed a node
    everPushed          \* the queues that received at least one element

vars == <<nodes, lists, registered_queues, next_index, doubleFree, pc,
          handles, ret, trace, everPushed>>

\* The program's memory as one value.
W == [nodes |-> nodes, lists |-> lists, registered_queues |-> registered_queues,
      next_index |-> next_index, doubleFree |-> doubleFree, pc |-> pc]

Install(w) ==
    /\ nodes' = w.nodes
    /\ lists' = w.lists
    /\ registered_queues' = w.registered_queues
    /\ next_index' = w.next_index
    /\ doubleFree' = w.doubleFree
    /\ pc' = w.pc

\* ------------------------------------------------------------ malloc/free
Without(f, a) == [x \in (DOMAIN f) \ {a} |-> f[x]]
With(f, a, v) == [x \in (DOMAIN f) \cup {a} |-> IF x = a THEN v ELSE f[x]]

free_node(w, n) ==
    IF n \in DOMAIN w.nodes
    THEN [w EXCEPT !.nodes = Without(@, n)]
    ELSE [w EXCEPT !.doubleFree = TRUE]

free_list(w, l) ==
    IF l \in DOMAIN w.lists
    THEN [w EXCEPT !.lists = Without(@, l)]
    ELSE [w EXCEPT !.doubleFree = TRUE]

\* What malloc can return: NULL, or a block that is not live.  The code
\* compares addresses only for equality (with NULL and with each other), so
\* one allocator stands for all of them: first fit, which reuses a freed
\* block at once.
FirstFit(F) == {x \in F : \A y \in F : x <= y}
MallocNode == {NULL} \cup FirstFit(NodeAddr \ DOMAIN nodes)
MallocList == {NULL} \cup FirstFit(ListAddr \ DOMAIN lists)

\* ------------------------------------------------------------ queue_create
\* `list` is what malloc returns, should queue_create get to call it.
\* Mutant: the cap is tested with > where the code has >=.
queue_create_off_by_one(w, list) ==
    IF w.next_index > MAX_QUEUES
    THEN [w |-> w, val |-> NULL]
    ELSE IF list = NULL
    THEN [w |-> w, val |-> NULL]
    ELSE [w |-> [w EXCEPT
                   !.lists = With(@, list, [head |-> NULL, tail |-> NULL,
                                            size |-> 0, index |-> w.next_index]),
                   !.next_index = @ + 1],
          val |-> list]

\* Mutant: next_index is not incremented.
queue_create_same_index(w, list) ==
    IF w.next_index >= MAX_QUEUES
    THEN [w |-> w, val |-> NULL]
    ELSE IF list = NULL
    THEN [w |-> w, val |-> NULL]
    ELSE [w |-> [w EXCEPT
                   !.lists = With(@, list, [head |-> NULL, tail |-> NULL,
                                            size |-> 0, index |-> w.next_index])],
          val |-> list]

queue_create(w, list) ==
    IF w.next_index >= MAX_QUEUES
    THEN [w |-> w, val |-> NULL]
    ELSE IF list = NULL
    THEN [w |-> w, val |-> NULL]
    ELSE [w |-> [w EXCEPT
                   !.lists = With(@, list, [head |-> NULL, tail |-> NULL,
                                            size |-> 0, index |-> w.next_index]),
                   !.next_index = @ + 1],
          val |-> list]

\* --------------------------------------------------------------- queue_free
RECURSIVE FreeChain(_, _)
FreeChain(w, iterator) ==
    IF iterator = NULL
    THEN w
    ELSE FreeChain(free_node(w, iterator), w.nodes[iterator].next)

\* Mutant: the nodes are freed and head and tail cleared, size is left as it was.
queue_free_keeps_size(w, list) ==
    IF list = NULL \/ w.lists[list].head = NULL
    THEN w
    ELSE [FreeChain(w, w.lists[list].head) EXCEPT
            !.lists[list].head = NULL,
            !.lists[list].tail = NULL]

\* Mutant: only the head node is freed before the queue is reset.
queue_free_head_only(w, list) ==
    IF list = NULL \/ w.lists[list].head = NULL
    THEN w
    ELSE [free_node(w, w.lists[list].head) EXCEPT
            !.lists[list].head = NULL,
            !.lists[list].tail = NULL,
            !.lists[list].size = 0]

\* Mutant: freeing a queue also takes it out of the registry.
queue_free_unregisters(w, list) ==
    IF list = NULL \/ w.lists[list].head = NULL
    THEN w
    ELSE [FreeChain(w, w.lists[list].head) EXCEPT
            !.lists[list].head = NULL,
            !.lists[list].tail = NULL,
            !.lists[list].size = 0,
            !.registered_queues[w.lists[list].index] = NULL]

\* Mutant: freeing a queue gives an identifier back.
queue_free_reclaims_id(w, list) ==
    IF list = NULL \/ w.lists[list].head = NULL
    THEN w
    ELSE [FreeChain(w, w.lists[list].head) EXCEPT
            !.lists[list].head = NULL,
            !.lists[list].tail = NULL,
            !.lists[list].size = 0,
            !.next_index = @ - 1]

queue_free(w, list) ==
    IF list = NULL \/ w.lists[list].head = NULL
    THEN w
    ELSE [FreeChain(w, w.lists[list].head) EXCEPT
            !.lists[list].head = NULL,
            !.lists[list].tail = NULL,
            !.lists[list].size = 0]

\* ------------------------------------------------------ cleanup_linked_list
RECURSIVE CleanupLoop(_, _)
CleanupLoop(w, i) ==
    IF ~(i < w.next_index)
    THEN w
    ELSE LET q == w.registered_queues[i] IN
         IF q # NULL
         THEN LET w1 == IF w.lists[q].head # NULL \/ w.lists[q].tail # NULL
                        THEN queue_free(w, q)
                        ELSE w
                  w2 == free_list(w1, q)
              IN CleanupLoop([w2 EXCEPT !.registered_queues[i] = NULL], i + 1)
         ELSE CleanupLoop(w, i + 1)

\* Mutant: the handler frees each registered record without freeing its chain.
RECURSIVE CleanupLoopNoChain(_, _)
CleanupLoopNoChain(w, i) ==
    IF ~(i < w.next_index)
    THEN w
    ELSE LET q == w.registered_queues[i] IN
         IF q # NULL
         THEN CleanupLoopNoChain([free_list(w, q) EXCEPT !.registered_queues[i] = NULL], i + 1)
         ELSE CleanupLoopNoChain(w, i + 1)

cleanup_linked_list_leaks_chain(w) == [CleanupLoopNoChain(w, 0) EXCEPT !.next_index = 0]

\* Mutant: the handler leaves next_index as it was.
cleanup_linked_list_keeps_counter(w) == CleanupLoop(w, 0)

cleanup_linked_list(w) == [CleanupLoop(w, 0) EXCEPT !.next_index = 0]

\* exit(): register_cleanup gave cleanup_linked_list to atexit before main,
\* so the process runs it once and is gone.
exit_(w) == [cleanup_linked_list(w) EXCEPT !.pc = "exited"]

\* ---------------------------------------------------------------- queue_push
\* `new_node` is what malloc returns.
\* `new_node` is what malloc returns.
\* Mutant: the queue is registered before the allocation is checked.
initialize_linked_list_registers_first(w, list, data, new_node) ==
    IF w.lists[list].head # NULL
    THEN w
    ELSE IF new_node = NULL
    THEN exit_([w EXCEPT !.registered_queues[w.lists[list].index] = list])
    ELSE [w EXCEPT
            !.nodes = With(@, new_node, [data |-> data, next |-> NULL, previous |-> NULL]),
            !.lists[list].head = new_node,
            !.lists[list].tail = new_node,
            !.lists[list].size = 1,
            !.registered_queues[w.lists[list].index] = list]

\* Mutant: every queue is registered in slot 0.
initialize_linked_list_slot0(w, list, data, new_node) ==
    IF w.lists[list].head # NULL
    THEN w
    ELSE IF new_node = NULL
    THEN exit_(w)
    ELSE [w EXCEPT
            !.nodes = With(@, new_node, [data |-> data, next |-> NULL, previous |-> NULL]),
            !.lists[list].head = new_node,
            !.lists[list].tail = new_node,
            !.lists[list].size = 1,
            !.registered_queues[0] = list]

initialize_linked_list(w, list, data, new_node) ==
    IF w.lists[list].head # NULL
    THEN w
    ELSE IF new_node = NULL
    THEN exit_(w)
    ELSE [w EXCEPT
            !.nodes = With(@, new_node, [data |-> data, next |-> NULL, previous |-> NULL]),
            !.lists[list].head = new_node,
            !.lists[list].tail = new_node,
            !.lists[list].size = 1,
            !.registered_queues[w.lists[list].index] = list]

\* Mutant: the new node is linked in front of head instead of behind tail.
queue_push_at_head(w, list, data, new_node) ==
    IF list = NULL
    THEN w
    ELSE IF w.lists[list].head = NULL
    THEN initialize_linked_list(w, list, data, new_node)
    ELSE IF new_node = NULL
    THEN exit_(w)
    ELSE LET head == w.lists[list].head IN
         [w EXCEPT
            !.nodes = [With(@, new_node, [data |-> data, next |-> head, previous |-> NULL])
                         EXCEPT ![head].previous = new_node],
            !.lists[list].head = new_node,
            !.lists[list].size = @ + 1]

\* Mutant: the node is appended, size is not incremented.
queue_push_no_count(w, list, data, new_node) ==
    IF list = NULL
    THEN w
    ELSE IF w.lists[list].head = NULL
    THEN initialize_linked_list(w, list, data, new_node)
    ELSE IF new_node = NULL
    THEN exit_(w)
    ELSE LET tail == w.lists[list].tail IN
         [w EXCEPT
            !.nodes = [With(@, new_node, [data |-> data, next |-> NULL, previous |-> tail])
                         EXCEPT ![tail].next = new_node],
            !.lists[list].tail = new_node]

queue_push(w, list, data, new_node) ==
    IF list = NULL
    THEN w
    ELSE IF w.lists[list].head = NULL
    THEN initialize_linked_list(w, list, data, new_node)
    ELSE IF new_node = NULL
    THEN exit_(w)
    ELSE LET tail == w.lists[list].tail IN
         [w EXCEPT
            !.nodes = [With(@, new_node, [data |-> data, next |-> NULL, previous |-> tail])
                         EXCEPT ![tail].next = new_node],
            !.lists[list].tail = new_node,
            !.lists[list].size = @ + 1]

\* ----------------------------------------------------------------- queue_pop
\* Mutant: the head node is unlinked and freed, size is not decremented.
queue_pop_no_decrement(w, list) ==
    IF list = NULL \/ w.lists[list].head = NULL
    THEN [w |-> w, val |-> -1]
    ELSE LET temp_head == w.lists[list].head
             data == w.nodes[temp_head].data
             w1 == IF w.nodes[temp_head].next = NULL
                   THEN [w EXCEPT !.lists[list].head = NULL,
                                  !.lists[list].tail = NULL]
                   ELSE [w EXCEPT !.lists[list].head = w.nodes[temp_head].next,
                                  !.nodes[w.nodes[temp_head].next].previous = NULL]
         IN [w |-> free_node(w1, temp_head), val |-> data]

\* Mutant: popping the only node clears head and leaves tail pointing at it.
queue_pop_keeps_tail(w, list) ==
    IF list = NULL \/ w.lists[list].head = NULL
    THEN [w |-> w, val |-> -1]
    ELSE LET temp_head == w.lists[list].head
             data == w.nodes[temp_head].data
             w1 == IF w.nodes[temp_head].next = NULL
                   THEN [w EXCEPT !.lists[list].head = NULL]
                   ELSE [w EXCEPT !.lists[list].head = w.nodes[temp_head].next,
                                  !.nodes[w.nodes[temp_head].next].previous = NULL]
             w2 == free_node(w1, temp_head)
         IN [w |-> [w2 EXCEPT !.lists[list].size = @ - 1], val |-> data]

queue_pop(w, list) ==
    IF list = NULL \/ w.lists[list].head = NULL
    THEN [w |-> w, val |-> -1]
    ELSE LET temp_head == w.lists[list].head
             data == w.nodes[temp_head].data
             w1 == IF w.nodes[temp_head].next = NULL
                   THEN [w EXCEPT !.lists[list].head = NULL,
                                  !.lists[list].tail = NULL]
                   ELSE [w EXCEPT !.lists[list].head = w.nodes[temp_head].next,
                                  !.nodes[w.nodes[temp_head].next].previous = NULL]
             w2 == free_node(w1, temp_head)
         IN [w |-> [w2 EXCEPT !.lists[list].size = @ - 1], val |-> data]

\* -------------------------------------------------------------- queue_search
RECURSIVE SearchLoop(_, _, _, _)
SearchLoop(w, iterator, position, data) ==
    IF iterator = NULL
    THEN -1
    ELSE IF w.nodes[iterator].data = data
    THEN position
    ELSE SearchLoop(w, w.nodes[iterator].next, position + 1, data)

\* queue_search(NULL, data): `list->head` is evaluated with no test of list,
\* which is undefined.  The read faults and the process is killed (no atexit
\* handler runs), or it yields what is stored at address 0, taken here to be
\* a null pointer, and the function returns -1.
queue_search_null(w, data) ==
    {[pc |-> "crashed", val |-> 0],
     [pc |-> "running", val |-> SearchLoop(w, NULL, 1, data)]}

\* Mutant: positions are counted from 0.
queue_search_zero_based(w, list, data) ==
    IF w.lists[list].head = NULL
    THEN -1
    ELSE SearchLoop(w, w.lists[list].head, 0, data)

\* list is not NULL here; queue_search_null is the other case.
queue_search(w, list, data) ==
    IF w.lists[list].head = NULL
    THEN -1
    ELSE SearchLoop(w, w.lists[list].head, 1, data)

\* ------------------------------------------- queue_size, _peek, _is_empty
queue_size(w, list) ==
    IF list = NULL \/ w.lists[list].head = NULL
    THEN 0
    ELSE w.lists[list].size

\* queue_peek(NULL, &v): the test `list == NULL` succeeds and the fprintf
\* that follows reads `list->index`, which is undefined.  The read faults and
\* the process is killed, or it yields some int, the line is printed and the
\* function returns false.
queue_peek_null(out_value) ==
    {[pc |-> "crashed", ok |-> FALSE, out_value |-> out_value],
     [pc |-> "running", ok |-> FALSE, out_value |-> out_value]}

\* Mutant: the value read is the tail's.
queue_peek_tail(w, list, out_value) ==
    IF w.lists[list].head = NULL
    THEN [ok |-> FALSE, out_value |-> out_value]
    ELSE [ok |-> TRUE, out_value |-> w.nodes[w.lists[list].tail].data]

\* out_value is the caller's int as it was; the result carries it as it is after.
\* list is not NULL here; queue_peek_null is the other case.
queue_peek(w, list, out_value) ==
    IF w.lists[list].head = NULL
    THEN [ok |-> FALSE, out_value |-> out_value]
    ELSE [ok |-> TRUE, out_value |-> w.nodes[w.lists[list].head].data]

queue_is_empty(w, list) == list = NULL \/ w.lists[list].size = 0

\* ------------------------------------------------------------------- state
NoRet == [op |-> "none", list |-> NULL, arg |-> 0, val |-> 0, ok |-> TRUE, oom |-> FALSE]

Ret(op, list, arg, val, ok, oom) ==
    [op |-> op, list |-> list, arg |-> arg, val |-> val, ok |-> ok, oom |-> oom]

RECURSIVE TraceSum(_)
TraceSum(S) ==
    IF S = {} THEN 0
    ELSE LET a == CHOOSE x \in S : TRUE IN Len(trace[a]) + TraceSum(S \ {a})

TraceTotal == TraceSum(ListAddr)

\* Static storage is zeroed, register_cleanup has run, main has not started.
Init ==
    /\ nodes = <<>>
    /\ lists = <<>>
    /\ registered_queues = [i \in Slots |-> NULL]
    /\ next_index = 0
    /\ doubleFree = FALSE
    /\ pc = "running"
    /\ handles = {}
    /\ ret = NoRet
    /\ trace = [a \in ListAddr |-> <<>>]
    /\ everPushed = {}

\* ----------------------------------------------------------------- actions
Create ==
    /\ pc = "running"
    /\ \E list \in MallocList :
         LET r == queue_create(W, list) IN
         /\ Install(r.w)
         /\ handles' = IF r.val = NULL THEN handles ELSE handles \cup {r.val}
         /\ ret' = Ret("create", NULL, 0, r.val, r.val # NULL,
                       next_index < MAX_QUEUES /\ list = NULL)
    /\ UNCHANGED <<trace, everPushed>>

Push ==
    /\ pc = "running"
    /\ \E list \in handles \cup {NULL}, data \in Data, new_node \in MallocNode :
         LET w == queue_push(W, list, data, new_node) IN
         /\ list # NULL => TraceTotal < MaxTrace
         \* with a NULL handle malloc is not called and data is not looked at
         /\ list = NULL => (new_node = NULL /\ data = 1)
         /\ Install(w)
         /\ ret' = Ret("push", list, data, 0, list # NULL /\ new_node # NULL,
                       list # NULL /\ new_node = NULL)
         /\ IF list = NULL \/ new_node = NULL
            THEN UNCHANGED <<trace, everPushed>>
            ELSE /\ trace' = [trace EXCEPT ![list] = Append(@, [op |-> "push", v |-> data])]
                 /\ everPushed' = everPushed \cup {list}
    /\ UNCHANGED handles

\* ret.ok tells a Pop that found a node from one that found none (both can
\* return -1); only the former is recorded in the trace.
Pop ==
    /\ pc = "running"
    /\ \E list \in handles \cup {NULL} :
         LET r == queue_pop(W, list)
             had == list # NULL /\ lists[list].head # NULL
         IN
         /\ had => TraceTotal < MaxTrace
         /\ Install(r.w)
         /\ ret' = Ret("pop", list, 0, r.val, had, FALSE)
         /\ trace' = IF had
                     THEN [trace EXCEPT ![list] = Append(@, [op |-> "pop", v |-> r.val])]
                     ELSE trace
    /\ UNCHANGED <<handles, everPushed>>

\* ret.ok is FALSE when the call did not return.
Search ==
    /\ pc = "running"
    /\ \E list \in handles \cup {NULL}, data \in Data :
         IF list = NULL
         THEN \E o \in queue_search_null(W, data) :
                 /\ data = 1
                 /\ pc' = o.pc
                 /\ ret' = Ret("search", NULL, data, o.val, o.pc = "running", FALSE)
         ELSE /\ pc' = pc
              /\ ret' = Ret("search", list, data, queue_search(W, list, data), TRUE, FALSE)
    /\ UNCHANGED <<nodes, lists, registered_queues, next_index, doubleFree,
                   handles, trace, everPushed>>

Size ==
    /\ pc = "running"
    /\ \E list \in handles \cup {NULL} :
         ret' = Ret("size", list, 0, queue_size(W, list), TRUE, FALSE)
    /\ UNCHANGED <<nodes, lists, registered_queues, next_index, doubleFree, pc,
                   handles, trace, everPushed>>

\* front_value is the caller's int before the call: 0, which no node holds,
\* so that a write to it shows.
Peek ==
    /\ pc = "running"
    /\ \E list \in handles \cup {NULL}, front_value \in {0} :
         IF list = NULL
         THEN \E o \in queue_peek_null(front_value) :
                 /\ pc' = o.pc
                 /\ ret' = Ret("peek", NULL, front_value, o.out_value, o.ok, FALSE)
         ELSE LET r == queue_peek(W, list, front_value) IN
              /\ pc' = pc
              /\ ret' = Ret("peek", list, front_value, r.out_value, r.ok, FALSE)
    /\ UNCHANGED <<nodes, lists, registered_queues, next_index, doubleFree,
                   handles, trace, everPushed>>

IsEmpty ==
    /\ pc = "running"
    /\ \E list \in handles \cup {NULL} :
         ret' = Ret("is_empty", list, 0, 0, queue_is_empty(W, list), FALSE)
    /\ UNCHANGED <<nodes, lists, registered_queues, next_index, doubleFree, pc,
                   handles, trace, everPushed>>

Free ==
    /\ pc = "running"
    /\ \E list \in handles \cup {NULL} :
         /\ list # NULL => TraceTotal - Len(trace[list]) < MaxTrace
         /\ Install(queue_free(W, list))
         /\ ret' = Ret("free", list, 0,
                       Cardinality(DOMAIN nodes) - Cardinality(DOMAIN queue_free(W, list).nodes),
                       TRUE, FALSE)
         /\ trace' = IF list = NULL
                     THEN trace
                     ELSE [trace EXCEPT ![list] = <<[op |-> "free", v |-> 0]>>]
    /\ UNCHANGED <<handles, everPushed>>

\* main returns (or the caller calls exit): the atexit handler runs.
Exit ==
    /\ pc = "running"
    /\ Install(exit_(W))
    /\ ret' = Ret("exit", NULL, 0, 0, TRUE, FALSE)
    /\ UNCHANGED <<handles, trace, everPushed>>

Next ==
    \/ Create
    \/ Push
    \/ Pop
    \/ Search
    \/ Size
    \/ Peek
    \/ IsEmpty
    \/ Free
    \/ Exit

Spec == Init /\ [][Next]_vars

\* ------------------------------------------------- what the traces say
IsPush(e) == e.op = "push"
IsPop(e) == e.op = "pop"
Vals(t) == [i \in 1..Len(t) |-> t[i].v]

\* The values pushed on q and the values its Pops returned, in call order,
\* since q was created or last freed; Freed: there was a Free.
Pushed(q) == Vals(SelectSeq(trace[q], IsPush))
Popped(q) == Vals(SelectSeq(trace[q], IsPop))
Freed(q) == trace[q] # <<>> /\ trace[q][1].op = "free"

\* The values pushed and not popped yet, oldest first.
Current(q) == SubSeq(Pushed(q), Len(Popped(q)) + 1, Len(Pushed(q)))

\* The 1-based place of the first v in s, -1 when there is none.
FirstPos(s, v) ==
    IF \E i \in 1..Len(s) : s[i] = v
    THEN CHOOSE i \in 1..Len(s) : s[i] = v /\ \A j \in 1..(i - 1) : s[j] # v
    ELSE -1

\* The node addresses of a chain, following next from n.
RECURSIVE Chain(_, _)
Chain(ns, n) == IF n = NULL THEN <<>> ELSE <<n>> \o Chain(ns, ns[n].next)

\* ------------------------------------------------------------------ claims

C2_SizeIsPushesMinusPops ==
    pc = "running" =>
        /\ \A q \in handles :
              /\ ~Freed(q) => queue_size(W, q) = Len(Pushed(q)) - Len(Popped(q))
              /\ lists[q].head = NULL => queue_size(W, q) = 0
        /\ (ret.op = "size" /\ ret.list # NULL /\ ~Freed(ret.list)) =>
              ret.val = Len(Pushed(ret.list)) - Len(Popped(ret.list))

\* Size called after two Pushes and one Pop returned 1.
C2_Witness ==
    /\ ret.op = "size" /\ ret.list # NULL /\ ret.val = 1
    /\ ~Freed(ret.list)
    /\ Len(Pushed(ret.list)) = 2 /\ Len(Popped(ret.list)) = 1

\* C3: a Search for v returns the 1-based place, counted from the head, of
\* the first v among the values pushed and not yet popped or freed, and -1
\* exactly when there is none; it changes neither the heap nor the registry.
C3_SearchFirstPosition ==
    [][(ret'.op = "search" /\ ret'.list # NULL) =>
         /\ ret'.val = FirstPos(Current(ret'.list), ret'.arg)
         /\ (ret'.val = -1) = (\A i \in 1..Len(Current(ret'.list)) :
                                  Current(ret'.list)[i] # ret'.arg)
         /\ UNCHANGED <<nodes, lists, registered_queues, next_index, handles>>]_vars

\* Search found at place 1 a value that was pushed second: the first was popped.
C3_Witness ==
    /\ ret.op = "search" /\ ret.list # NULL /\ ret.val = 1
    /\ Len(Popped(ret.list)) = 1
    /\ Pushed(ret.list)[1] # ret.arg
    /\ Pushed(ret.list)[2] = ret.arg

\* C4: for every valid handle, in every state reached by Create, Push, Pop,
\* Peek, Search and Free, queue_is_empty (which reads size) is true exactly
\* when queue_size (which reads head) returns 0.
C4_IsEmptyIffSizeZero ==
    pc = "running" =>
        \A q \in handles : queue_is_empty(W, q) = (queue_size(W, q) = 0)

\* IsEmpty answered true on a queue that was pushed to and then drained by Pop.
C4_Witness ==
    /\ ret.op = "is_empty" /\ ret.list # NULL /\ ret.ok
    /\ ~Freed(ret.list)
    /\ Len(Pushed(ret.list)) >= 1
    /\ Len(Popped(ret.list)) = Len(Pushed(ret.list))

\* ----------------------------------------------- a queue fresh from Create
\* The memory of a process that has just started, and the same after its
\* first queue_create: the handle is FreshList, nothing was pushed.
StartWorld ==
    [nodes |-> <<>>, lists |-> <<>>, registered_queues |-> [i \in Slots |-> NULL],
     next_index |-> 0, doubleFree |-> FALSE, pc |-> "running"]
FreshList == CHOOSE a \in FirstFit(ListAddr) : TRUE
FreshWorld == queue_create(StartWorld, FreshList).w

\* The calls of trace t made on list in w, one after the other: the memory
\* they leave and the values the Pops returned.
RECURSIVE Replay(_, _, _)
Replay(w, list, t) ==
    IF t = <<>>
    THEN [w |-> w, popped |-> <<>>]
    ELSE LET e == Head(t)
             new_node == CHOOSE n \in FirstFit(NodeAddr \ DOMAIN w.nodes) : TRUE
         IN IF e.op = "push"
            THEN Replay(queue_push(w, list, e.v, new_node), list, Tail(t))
            ELSE LET r == queue_pop(w, list)
                     rest == Replay(r.w, list, Tail(t))
                 IN [w |-> rest.w, popped |-> <<r.val>> \o rest.popped]

\* What a caller can observe of list in w without changing it.
Observe(w, list) ==
    [size |-> queue_size(w, list),
     is_empty |-> queue_is_empty(w, list),
     pop |-> queue_pop(w, list).val,
     peek |-> [v \in Data |-> queue_peek(w, list, v)],
     search |-> [v \in Data |-> queue_search(w, list, v)]]

\* C5: a freed queue is a fresh queue to its caller.  Right after Free,
\* Size is 0, IsEmpty is true, Pop returns -1 and Peek fails; and after any
\* Pushes and Pops that follow the Free, the Pops have returned what they
\* return when the same calls are made on a queue fresh from Create in a
\* process that did nothing else, and Size, IsEmpty, Pop, Peek and Search
\* answer as they answer there.
C5_FreedIsFresh ==
    pc = "running" =>
        \A q \in handles : Freed(q) =>
            LET t == Tail(trace[q])
                fresh == Replay(FreshWorld, FreshList, t)
            IN /\ Popped(q) = fresh.popped
               /\ Observe(W, q) = Observe(fresh.w, FreshList)
               /\ t = <<>> =>
                     /\ queue_size(W, q) = 0
                     /\ queue_is_empty(W, q)
                     /\ queue_pop(W, q).val = -1
                     /\ \A v \in Data : queue_peek(W, q, v) = [ok |-> FALSE, out_value |-> v]

\* A queue that was freed and then pushed to and popped from, while a second
\* queue exists.
C5_Witness ==
    /\ pc = "running"
    /\ \E q \in handles :
          /\ Freed(q)
          /\ Len(Pushed(q)) >= 1 /\ Len(Popped(q)) >= 1
          /\ registered_queues[lists[q].index] = q
          /\ handles # {q}

\* C6: with MAX_QUEUES queues at most, a Create made when fewer than
\* MAX_QUEUES were created and malloc does not fail returns a new handle;
\* a Create made when MAX_QUEUES were created returns NULL and leaves
\* next_index, every registry slot and every queue as they were.
C6_CreateCap ==
    [][ret'.op = "create" =>
         /\ (Cardinality(handles) < MAX_QUEUES /\ ~ret'.oom) =>
               /\ ret'.val # NULL
               /\ ret'.val \notin handles
               /\ handles' = handles \cup {ret'.val}
               /\ ret'.val \in DOMAIN lists'
         /\ Cardinality(handles) >= MAX_QUEUES =>
               /\ ret'.val = NULL
               /\ next_index' = next_index
               /\ registered_queues' = registered_queues
               /\ lists' = lists
               /\ nodes' = nodes
               /\ handles' = handles]_vars

\* The Create after MAX_QUEUES successful ones returned NULL, with a queue registered.
C6_Witness ==
    /\ ret.op = "create" /\ ret.val = NULL /\ ~ret.oom
    /\ Cardinality(handles) = MAX_QUEUES
    /\ \E i \in Slots : registered_queues[i] # NULL

\* C7: the exit-time teardown leaks nothing of a used queue.  Once the
\* process has exited, no node is still allocated, the record of every queue
\* that received an element has been released, and no block was released
\* twice: whether the queue still held elements, was drained by Pops or was
\* freed by the caller.
C7_TeardownReleasesUsedQueues ==
    pc = "exited" =>
        /\ DOMAIN nodes = {}
        /\ \A q \in everPushed : q \notin DOMAIN lists
        /\ ~doubleFree

\* The process exited with one queue still holding an element it was never
\* freed of, and another one used and emptied before the exit.
C7_Witness ==
    /\ pc = "exited"
    /\ \E q \in everPushed : ~Freed(q) /\ Current(q) # <<>>
    /\ \E q \in everPushed : Current(q) = <<>>

\* C8: a queue created and never pushed to is in no registry slot, and after
\* the process has left main and the exit-time teardown has run none of its
\* memory (its record included) is still allocated.
C8_NeverPushedNoLeak ==
    /\ pc = "running" =>
          \A q \in handles \ everPushed : \A i \in Slots : registered_queues[i] # q
    /\ (pc = "exited" /\ ret.op = "exit") =>
          \A q \in handles \ everPushed : q \notin DOMAIN lists

\* C9: a Pop on a queue with no nodes returns -1 and leaves the heap, the
\* queue (head, tail, size, index) and the registry as they were; a Pop on a
\* queue with nodes returns the head's value, frees that node and no other,
\* leaves the rest of the chain in order and takes one off size.
C9_Pop ==
    [][(ret'.op = "pop" /\ ret'.list # NULL) =>
         LET q == ret'.list
             head == lists[q].head
         IN IF head = NULL
            THEN /\ ret'.val = -1
                 /\ UNCHANGED <<nodes, lists, registered_queues, next_index, handles>>
            ELSE /\ ret'.val = nodes[head].data
                 /\ ret'.val = Head(Current(q))
                 /\ DOMAIN nodes' = (DOMAIN nodes) \ {head}
                 /\ Chain(nodes', lists'[q].head) = Tail(Chain(nodes, head))
                 /\ lists'[q].size = lists[q].size - 1
                 /\ lists'[q].index = lists[q].index
                 /\ \A o \in handles \ {q} : lists'[o] = lists[o]
                 /\ UNCHANGED <<registered_queues, next_index, handles>>]_vars

\* A Pop that found no node, on a queue whose only element an earlier Pop took.
C9_Witness ==
    /\ ret.op = "pop" /\ ret.list # NULL /\ ~ret.ok /\ ret.val = -1
    /\ Len(Popped(ret.list)) >= 1

\* C10: a Peek on a queue with nodes reports success and writes the head's
\* value, the one the next Pop returns, to the caller's int; a Peek on a
\* queue with no nodes reports failure and leaves that int alone; neither
\* changes the heap, the queue or the registry.
C10_Peek ==
    [][(ret'.op = "peek" /\ ret'.list # NULL) =>
         LET q == ret'.list IN
         /\ UNCHANGED <<nodes, lists, registered_queues, next_index, handles>>
         /\ IF lists[q].head = NULL
            THEN ~ret'.ok /\ ret'.val = ret'.arg
            ELSE /\ ret'.ok
                 /\ ret'.val = nodes[lists[q].head].data
                 /\ ret'.val = queue_pop(W, q).val
                 /\ ret'.val = Head(Current(q))]_vars

\* A Peek that overwrote the caller's int with the head's value, on a queue
\* whose tail holds another value.
C10_Witness ==
    /\ ret.op = "peek" /\ ret.list # NULL /\ ret.ok /\ ret.val # ret.arg
    /\ Len(Current(ret.list)) >= 2
    /\ Current(ret.list)[Len(Current(ret.list))] # ret.val

\* The set of the elements of a sequence.
Range(t) == {t[i] : i \in 1..Len(t)}

\* The node addresses of a chain, following previous from n.
RECURSIVE ChainBack(_, _)
ChainBack(ns, n) == IF n = NULL THEN <<>> ELSE ChainBack(ns, ns[n].previous) \o <<n>>

\* C11: a Free releases every node of the chain, each once and no other
\* block, and leaves the queue with head NULL, tail NULL and size 0, its
\* index, the other queues and the registry untouched; a Free of a queue with
\* no nodes (never pushed, drained, already freed) changes nothing, and a
\* second Free right after a Free would change nothing either.
C11_Free ==
    [][(ret'.op = "free" /\ ret'.list # NULL) =>
         LET q == ret'.list
             chain == Chain(nodes, lists[q].head)
         IN /\ DOMAIN nodes' = (DOMAIN nodes) \ Range(chain)
            /\ \A n \in DOMAIN nodes' : nodes'[n] = nodes[n]
            /\ Cardinality(Range(chain)) = Len(chain)
            /\ ~doubleFree'
            /\ lists' = [lists EXCEPT ![q] = [head |-> NULL, tail |-> NULL, size |-> 0,
                                              index |-> lists[q].index]]
            /\ UNCHANGED <<registered_queues, next_index, handles, pc>>
            /\ lists[q].head = NULL => UNCHANGED <<nodes, lists>>
            /\ queue_free(W', q) = W']_vars

\* A Free that released a chain of two nodes.
C11_Witness ==
    /\ ret.op = "free" /\ ret.list # NULL /\ ret.val = 2
    /\ lists[ret.list].head = NULL /\ lists[ret.list].size = 0

\* C13: chain consistency.  In every state reached by Pushes, Pops and Frees,
\* for every queue: size is 0 exactly when head and tail are both NULL; head
\* and tail are NULL together; with one node head and tail are that node;
\* following next from head visits size nodes and ends at tail (size - 1
\* steps), following previous from tail visits the same nodes in reverse and
\* ends at head; head has no previous and tail no next.
C13_ChainConsistent ==
    pc = "running" =>
        \A q \in handles :
            LET l == lists[q] IN
            /\ (l.size = 0) = (l.head = NULL /\ l.tail = NULL)
            /\ (l.head = NULL) = (l.tail = NULL)
            /\ l.head # NULL =>
                  /\ l.head \in DOMAIN nodes /\ l.tail \in DOMAIN nodes
                  /\ nodes[l.head].previous = NULL
                  /\ nodes[l.tail].next = NULL
                  /\ LET fwd == Chain(nodes, l.head)
                         back == ChainBack(nodes, l.tail)
                     IN /\ Len(fwd) = l.size
                        /\ fwd[l.size] = l.tail
                        /\ back = fwd
                        /\ back[1] = l.head
                        /\ Cardinality(Range(fwd)) = l.size
                  /\ l.size = 1 => l.head = l.tail

\* A queue of one node left by two Pushes and a Pop.
C13_Witness ==
    /\ pc = "running"
    /\ \E q \in handles :
          /\ Len(Pushed(q)) = 2
          /\ Len(Popped(q)) = 1
          /\ lists[q].size = 1
          /\ lists[q].head = lists[q].tail
          /\ lists[q].head # NULL

\* Whether q sits in the registry slot of its index.
Registered(q) == registered_queues[lists[q].index] = q

\* C14: before teardown, the queues' identifiers are pairwise distinct and
\* lie in 0 .. next_index - 1, next_index is the number of Creates that
\* succeeded, an occupied slot i holds a queue whose index is i, and the
\* slots from next_index on are empty.
C14_RegistryIdentifiers ==
    pc = "running" =>
        /\ next_index = Cardinality(handles)
        /\ \A q \in handles : lists[q].index \in 0..(next_index - 1)
        /\ \A q1, q2 \in handles : q1 # q2 => lists[q1].index # lists[q2].index
        /\ \A i \in Slots :
              /\ registered_queues[i] # NULL =>
                    /\ registered_queues[i] \in handles
                    /\ lists[registered_queues[i]].index = i
              /\ i >= next_index => registered_queues[i] = NULL

\* Two queues, each registered in its own slot.
C14_Witness ==
    /\ pc = "running"
    /\ Cardinality(handles) = 2
    /\ \A q \in handles : Registered(q)

\* C15: registration lifecycle.  Before teardown a queue is in its slot
\* exactly when it has received an element: a Create registers nothing, the
\* first Push that stores an element puts the queue in the slot of its
\* index, and no later call (a Pop that drains it, a Free, a Push after
\* that) takes it out; a Free changes neither the registry nor next_index.
C15_RegistrationLifecycle ==
    [][pc' = "running" =>
         /\ \A q \in handles' : Registered(q)' = (q \in everPushed')
         /\ \A q \in handles : Registered(q) => Registered(q)'
         /\ (ret'.op = "create" /\ ret'.val # NULL) =>
               \A i \in Slots : registered_queues'[i] # ret'.val
         /\ (ret'.op = "push" /\ ret'.ok) =>
               registered_queues'[lists[ret'.list].index] = ret'.list
         /\ ret'.op = "free" =>
               UNCHANGED <<registered_queues, next_index>>]_vars

\* A queue still in its slot after it was freed and pushed to again.
C15_Witness ==
    /\ pc = "running"
    /\ \E q \in handles :
          /\ Freed(q)
          /\ Len(Pushed(q)) = 1 /\ Len(Popped(q)) = 0
          /\ Registered(q)
          /\ ret.op = "push" /\ ret.list = q

\* C16: identifiers are not given back before teardown.  No Create, Push,
\* Pop or Free makes next_index smaller, so once it has reached MAX_QUEUES
\* (the condition under which a Create fails for lack of identifiers) it
\* stays there and every later Create returns NULL, whatever was freed or
\* drained in between.
C16_IdentifiersNeverReclaimed ==
    [][pc' = "running" =>
         /\ next_index' >= next_index
         /\ next_index >= MAX_QUEUES =>
               /\ next_index' >= MAX_QUEUES
               /\ ret'.op = "create" => ret'.val = NULL /\ handles' = handles]_vars

\* A Create refused for lack of identifiers after a queue was freed.
C16_Witness ==
    /\ ret.op = "create" /\ ret.val = NULL /\ ~ret.oom
    /\ next_index = MAX_QUEUES
    /\ \E q \in handles : Freed(q) /\ q \in everPushed

\* The queues in the slots below next_index.
RegisteredSet == {registered_queues[i] : i \in 0..(next_index - 1)} \ {NULL}

\* C17: teardown postcondition.  Whenever the process exits (return from
\* main or a fatal Push), the handler has visited every slot below
\* next_index: the record of every queue found there and every node of its
\* chain are released, each exactly once, nothing else is released, and
\* afterwards every registry slot is NULL and next_index is 0.
C17_TeardownPostcondition ==
    [][(pc = "running" /\ pc' = "exited") =>
         /\ \A i \in Slots : registered_queues'[i] = NULL
         /\ next_index' = 0
         /\ DOMAIN lists' = (DOMAIN lists) \ RegisteredSet
         /\ \A q \in DOMAIN lists' : lists'[q] = lists[q]
         /\ DOMAIN nodes' =
               (DOMAIN nodes) \ UNION {Range(Chain(nodes, lists[q].head)) : q \in RegisteredSet}
         /\ \A n \in DOMAIN nodes' : nodes'[n] = nodes[n]
         /\ ~doubleFree']_vars

\* Teardown that found an occupied slot with a chain and an occupied slot
\* without one.
C17_Witness ==
    /\ pc = "exited" /\ ret.op = "exit"
    /\ next_index = 0
    /\ Cardinality(everPushed) = 2
    /\ \E q1, q2 \in everPushed : Current(q1) # <<>> /\ Current(q2) = <<>>

\* C18: a Push whose node allocation fails, first Push or later one, ends
\* the process.  Nothing of the Push itself remains: what is left is what
\* the exit handler makes of the memory as it was before the Push, so a
\* queue that was not registered before is not treated as registered (its
\* record is as it was), every queue registered before is released with
\* its chain, and no block is released twice.
C18_PushAllocationFailureIsFatal ==
    [][(ret'.op = "push" /\ ret'.oom) =>
         LET q == ret'.list
             t == cleanup_linked_list(W)
         IN /\ pc = "running" /\ pc' = "exited"
            /\ nodes' = t.nodes /\ lists' = t.lists
            /\ registered_queues' = t.registered_queues
            /\ next_index' = t.next_index
            /\ ~doubleFree'
            /\ (lists[q].head = NULL /\ ~Registered(q)) =>
                  q \in DOMAIN lists' /\ lists'[q] = lists[q]
            /\ \A r \in RegisteredSet :
                  /\ r \notin DOMAIN lists'
                  /\ Range(Chain(nodes, lists[r].head)) \cap DOMAIN nodes' = {}
            /\ \A i \in Slots : registered_queues'[i] = NULL]_vars

\* The first Push of a queue fails while another queue holds an element.
C18_Witness ==
    /\ pc = "exited"
    /\ ret.op = "push" /\ ret.oom
    /\ ret.list \notin everPushed
    /\ \E o \in everPushed : Current(o) # <<>>

\* The pushes and pops of a trace, without the mark a Free leaves.
Calls(t) == SelectSeq(t, LAMBDA e : e.op # "free")

\* Every queue answers as a queue alone in a process answers after the calls
\* made on this queue since it was created or last freed.
C19_OwnHistory ==
    pc = "running" =>
        \A q \in handles :
            Observe(W, q) =
              Observe(Replay(FreshWorld, FreshList, Calls(trace[q])).w, FreshList)

\* A call on queue q that returns leaves the other queues and slots alone.
C19_Frame ==
    (pc' = "running" /\ ret'.op \notin {"create", "exit"} /\ ret'.list # NULL) =>
        LET q == ret'.list IN
        /\ handles' = handles /\ next_index' = next_index
        /\ \A o \in handles \ {q} :
              /\ lists'[o] = lists[o]
              /\ \A n \in Range(Chain(nodes, lists[o].head)) :
                    n \in DOMAIN nodes' /\ nodes'[n] = nodes[n]
        /\ \A i \in Slots \ {lists[q].index} :
              registered_queues'[i] = registered_queues[i]

\* C19: queue independence.  A Push, Pop, Peek, Search, Size, IsEmpty or
\* Free on queue q that returns leaves every other queue's record (head,
\* tail, size, index) and the nodes of its chain, and every registry slot but
\* q's own, as they were, and creates no queue and no identifier; and every
\* queue answers Size, IsEmpty, Pop, Peek and Search as a queue alone in a
\* process answers after the calls made on this queue since it was created
\* or last freed, whatever was done to the others in between.
C19_QueueIndependence == []C19_OwnHistory /\ [][C19_Frame]_vars

\* A Pop that drained one queue while the other kept its element.
C19_Witness ==
    /\ pc = "running"
    /\ \E q, o \in handles :
          /\ q # o
          /\ ret.op = "pop" /\ ret.list = q /\ ret.ok
          /\ Current(q) = <<>>
          /\ Current(o) # <<>>

\* C12: a call with a NULL handle returns, with the "no value" result (Pop
\* -1, Search -1, Size 0, Peek false, IsEmpty true, Push and Free nothing),
\* and leaves the heap, the registry and next_index as they were.
C12_NullHandleTolerated ==
    [][(ret'.list = NULL /\ ret'.op \notin {"none", "create", "exit"}) =>
         /\ pc' = "running"
         /\ ret'.op = "pop" => ret'.val = -1
         /\ ret'.op = "search" => ret'.val = -1
         /\ ret'.op = "size" => ret'.val = 0
         /\ ret'.op = "peek" => ~ret'.ok /\ ret'.val = ret'.arg
         /\ ret'.op = "is_empty" => ret'.ok
         /\ UNCHANGED <<nodes, lists, registered_queues, next_index, doubleFree, handles>>]_vars

====
